---- MODULE Spec2Model ----
(***************************************************************************)
(* Singly linked lists of the hym crate: the Rc<RefCell<..>> variant       *)
(* (linear/linked_list.rs), the Box variant (linear/box_linked_list.rs)    *)
(* and the NonNull variant (linear/nonull_linked_list.rs).                 *)
(*                                                                         *)
(* A list is a record of its fields (len, head, tail) plus the heap of     *)
(* the nodes it can reach: a function from node addresses to               *)
(* [value, next].  Address 0 stands for Option::None.  Every list          *)
(* operation is an operator from a list (and its arguments) to the list    *)
(* afterwards and the returned value; a failed unwrap() is the result      *)
(* Panic.  The three variants are driven by the same calls, one call per   *)
(* step; a panic aborts the process, so no call follows it.                *)
(***************************************************************************)
EXTENDS Integers, Sequences, FiniteSets, TLC

\* Bounds of the model.
MaxLen == 3          \* a push or insert is called only while len < MaxLen
MaxVal == 2          \* the stored values are 1..MaxVal
MaxNones == 2        \* next() is called on an iterator until it returned None MaxNones times
MaxPushes == 6       \* push is called at most MaxPushes times on the head-only list

Vals == 1..MaxVal
Indices == 0..(MaxLen + 1)
Seqs == UNION {[1..n -> Vals] : n \in 0..MaxLen}

VARIABLES
    rc,      \* the Rc list after the last call
    bx,      \* the Box list after the last call
    nn,      \* the NonNull list after the last call
    pre,     \* the three lists right before the last call
    call,    \* the call in progress: [name, val, at, seq]
    res,     \* what the call returned, per variant
    on,      \* the variants the calls are made on
    cl,      \* the clone taken of each list, if one was taken
    it,      \* the iterator in use on the list, if there is one
    nd,      \* a node a caller owns outside any list, and its successors
    ml       \* the head-only list of linked_list.rs

vars == <<rc, bx, nn, pre, call, res, on, cl, it, nd, ml>>

----------------------------------------------------------------------------
\* Results of calls.

None == 0

Unit == [tag |-> "Unit", val |-> <<>>, err |-> "", text |-> ""]
Ok(v) == [tag |-> "Ok", val |-> <<v>>, err |-> "", text |-> ""]
OkUnit == [tag |-> "Ok", val |-> <<>>, err |-> "", text |-> ""]
Err(e) == [tag |-> "Err", val |-> <<>>, err |-> e, text |-> ""]
Some(v) == [tag |-> "Some", val |-> <<v>>, err |-> "", text |-> ""]
NoValue == [tag |-> "None", val |-> <<>>, err |-> "", text |-> ""]
Vec(s) == [tag |-> "Vec", val |-> s, err |-> "", text |-> ""]
Panic == [tag |-> "Panic", val |-> <<>>, err |-> "", text |-> ""]
\* A usize, a bool and a String.
Num(n) == [tag |-> "Num", val |-> <<n>>, err |-> "", text |-> ""]
Bool(b) == [tag |-> IF b THEN "True" ELSE "False", val |-> <<>>, err |-> "", text |-> ""]
Text(t) == [tag |-> "Text", val |-> <<>>, err |-> "", text |-> t]
\* A freed node was dereferenced (NonNull variant): undefined behaviour.
UB == [tag |-> "UB", val |-> <<>>, err |-> "", text |-> ""]

Ret(st, r) == [st |-> st, res |-> r]

----------------------------------------------------------------------------
\* The heap of nodes.

Node(v, n) == [value |-> v, next |-> n]

\* The address a new allocation gets: any address not in use.
Fresh(nodes) == CHOOSE i \in 1..(Cardinality(DOMAIN nodes) + 1) : i \notin DOMAIN nodes

Alloc(nodes, id, v, n) == [i \in DOMAIN nodes \cup {id} |-> IF i = id THEN Node(v, n) ELSE nodes[i]]

Free(nodes, ids) == [i \in DOMAIN nodes \ ids |-> nodes[i]]

\* The addresses met by following next from p, p first.
RECURSIVE ChainFrom(_, _, _)
ChainFrom(nodes, p, fuel) ==
    IF p = None \/ p \notin DOMAIN nodes \/ fuel = 0
    THEN <<>>
    ELSE <<p>> \o ChainFrom(nodes, nodes[p].next, fuel - 1)

Chain(nodes, p) == ChainFrom(nodes, p, Cardinality(DOMAIN nodes))

\* The values stored from p on, in chain order.
ValuesFrom(nodes, p) ==
    LET c == Chain(nodes, p) IN [i \in 1..Len(c) |-> nodes[c[i]].value]

\* curr = p.unwrap(); n times: curr = curr.next.unwrap().  None when an unwrap fails.
RECURSIVE Hop(_, _, _)
Hop(nodes, p, n) ==
    IF p = None \/ p \notin DOMAIN nodes THEN None
    ELSE IF n <= 0 THEN p
    ELSE Hop(nodes, nodes[p].next, n - 1)

SeqToSet(s) == {s[i] : i \in 1..Len(s)}

----------------------------------------------------------------------------
\* Rc variant: linear/linked_list.rs

\* held: the Rc pointers a clone of the list holds (its head and its tail),
\* <<>> while there is no clone.  A clone shares the nodes of the list.
RcNew == [len |-> 0, head |-> None, tail |-> None, nodes |-> <<>>, held |-> <<>>]

\* The nodes reached from the pointers a clone holds.
RECURSIVE HeldChains(_, _)
HeldChains(nodes, held) ==
    IF held = <<>> THEN <<>>
    ELSE Chain(nodes, Head(held)) \o HeldChains(nodes, Tail(held))

\* An Rc node lives as long as head, tail, a clone or another live node
\* refers to it.
RcDrop(l) ==
    LET live == SeqToSet(Chain(l.nodes, l.head)) \cup SeqToSet(Chain(l.nodes, l.tail))
                \cup SeqToSet(HeldChains(l.nodes, l.held))
    IN  [l EXCEPT !.nodes = Free(l.nodes, DOMAIN l.nodes \ live)]

\* #[derive(Clone)]: len is copied, head and tail are Rc::clone'd, so the
\* clone points at the nodes of the list.  The list afterwards (its nodes now
\* held by the clone too) and the clone's fields.
RcClone(l) ==
    Ret([l EXCEPT !.held = <<l.head, l.tail>>],
        [len |-> l.len, head |-> l.head, tail |-> l.tail])

\* The clone of list l as a list of its own: its len, the head and tail it
\* holds, and the nodes it shares with l.
RcCloneView(l, len) ==
    IF l.held = <<>> THEN RcNew
    ELSE [len |-> len, head |-> l.held[1], tail |-> l.held[2], nodes |-> l.nodes,
          held |-> <<>>]

\* LinkedListNode::insert on node p
RcNodeInsert(nodes, p, v) ==
    LET id == Fresh(nodes)
    IN  [Alloc(nodes, id, v, nodes[p].next) EXCEPT ![p].next = id]

\* LinkedListNode::remove on node p: the heap afterwards and the result
RcNodeRemove(nodes, p) ==
    LET n == nodes[p].next
    IN  IF n # None
        THEN Ret([nodes EXCEPT ![p].next = nodes[n].next], Ok(nodes[n].value))
        ELSE Ret(nodes, Err("NextIsNone"))

\* RcPushHead that moves tail to the new node on every call.
RcPushHeadSetsTail(l, v) ==
    LET id == Fresh(l.nodes)
    IN  IF l.len = 0
        THEN Ret(RcDrop([l EXCEPT !.nodes = Alloc(l.nodes, id, v, None),
                                  !.head = id, !.tail = id, !.len = l.len + 1]), Unit)
        ELSE Ret(RcDrop([l EXCEPT !.nodes = Alloc(l.nodes, id, v, l.head),
                                  !.head = id, !.tail = id, !.len = l.len + 1]), Unit)

RcPushHead(l, v) ==
    LET id == Fresh(l.nodes)
    IN  IF l.len = 0
        THEN Ret(RcDrop([l EXCEPT !.nodes = Alloc(l.nodes, id, v, None),
                                  !.head = id, !.tail = id, !.len = l.len + 1]), Unit)
        ELSE Ret([l EXCEPT !.nodes = Alloc(l.nodes, id, v, l.head),
                           !.head = id, !.len = l.len + 1], Unit)

RcPushBack(l, v) ==
    IF l.len = 0 THEN RcPushHead(l, v)
    ELSE IF l.tail = None THEN Ret(l, Panic)
    ELSE LET nodes1 == RcNodeInsert(l.nodes, l.tail, v)
         IN  Ret(RcDrop([l EXCEPT !.nodes = nodes1,
                                  !.tail = nodes1[l.tail].next,
                                  !.len = l.len + 1]), Unit)

RcPopHead(l) ==
    IF l.len = 0 THEN Ret(l, Err("EmptyList"))
    ELSE IF l.head = None THEN Ret(l, Panic)
    ELSE IF l.len = 1
    THEN Ret(RcDrop([l EXCEPT !.head = None, !.tail = None, !.len = 0]),
             Ok(l.nodes[l.head].value))
    ELSE Ret(RcDrop([l EXCEPT !.head = l.nodes[l.head].next, !.len = l.len - 1]),
             Ok(l.nodes[l.head].value))

RcPopBack(l) ==
    IF l.len = 0 THEN Ret(l, Err("EmptyList"))
    ELSE IF l.len = 1 THEN RcPopHead(l)
    ELSE LET curr == Hop(l.nodes, l.head, l.len - 2)
         IN  IF curr = None THEN Ret(l, Panic)
             ELSE LET r == RcNodeRemove(l.nodes, curr)
                  IN  IF r.res.tag = "Err" THEN Ret(l, Panic)
                      ELSE Ret(RcDrop([l EXCEPT !.nodes = r.st, !.tail = curr,
                                                !.len = l.len - 1]), r.res)

\* RcInsert that accepts the index len + 1.
RcInsertInclusive(l, v, at) ==
    IF at = 0 THEN Ret(RcPushHead(l, v).st, OkUnit)
    ELSE IF 0 < at /\ at < l.len + 2
    THEN LET curr == Hop(l.nodes, l.head, at - 1)
         IN  IF curr = None THEN Ret(l, Panic)
             ELSE Ret([l EXCEPT !.nodes = RcNodeInsert(l.nodes, curr, v),
                                !.len = l.len + 1], OkUnit)
    ELSE Ret(l, Err("InsertOutOfRange"))

RcInsert(l, v, at) ==
    IF at = 0 THEN Ret(RcPushHead(l, v).st, OkUnit)
    ELSE IF 0 < at /\ at < l.len + 1
    THEN LET curr == Hop(l.nodes, l.head, at - 1)
         IN  IF curr = None THEN Ret(l, Panic)
             ELSE Ret([l EXCEPT !.nodes = RcNodeInsert(l.nodes, curr, v),
                                !.len = l.len + 1], OkUnit)
    ELSE Ret(l, Err("InsertOutOfRange"))

RcRemove(l, at) ==
    IF at = 0
    THEN IF l.len = 0 THEN Ret(l, Err("RemoveFromEmptyList")) ELSE RcPopHead(l)
    ELSE IF 0 < at /\ at < l.len
    THEN LET curr == Hop(l.nodes, l.head, at - 1)
         IN  IF curr = None THEN Ret(l, Panic)
             ELSE LET r == RcNodeRemove(l.nodes, curr)
                  IN  IF r.res.tag = "Err" THEN Ret(l, Panic)
                      ELSE Ret(RcDrop([l EXCEPT !.nodes = r.st, !.len = l.len - 1]), r.res)
    ELSE Ret(l, Err("RemoveOutOfRange"))

\* The loop of val2ix: ix runs over 0..len-2 and steps curr with an unwrap;
\* the last node is compared after the loop.  <<-1>> stands for a failed unwrap.
RECURSIVE RcVal2IxLoop(_, _, _, _, _)
RcVal2IxLoop(l, v, curr, ix, acc) ==
    LET acc1 == IF l.nodes[curr].value = v THEN Append(acc, ix) ELSE acc
    IN  IF ix >= l.len - 1 THEN acc1
        ELSE IF l.nodes[curr].next = None THEN <<-1>>
        ELSE RcVal2IxLoop(l, v, l.nodes[curr].next, ix + 1, acc1)

RcVal2Ix(l, v) ==
    IF l.len = 0 THEN Ret(l, Vec(<<>>))
    ELSE IF l.head = None THEN Ret(l, Panic)
    ELSE LET s == RcVal2IxLoop(l, v, l.head, 0, <<>>)
         IN  IF s = <<-1>> THEN Ret(l, Panic) ELSE Ret(l, Vec(s))

RcIx2Val(l, ix) ==
    IF ix >= l.len THEN Ret(l, NoValue)
    ELSE LET curr == Hop(l.nodes, l.head, ix)
         IN  IF curr = None THEN Ret(l, Panic)
             ELSE Ret(l, Some(l.nodes[curr].value))

RcGet(l, ix) == RcIx2Val(l, ix)

\* RcClean that leaves tail as it was.
RcCleanKeepsTail(l) == Ret(RcDrop([l EXCEPT !.head = None, !.len = 0]), Unit)

RcClean(l) == Ret(RcDrop([l EXCEPT !.tail = None, !.head = None, !.len = 0]), Unit)

\* from_vec: list = new(); for val in vals { list.push_back(&val) }
RECURSIVE RcFromVecLoop(_, _)
RcFromVecLoop(list, vals) ==
    IF vals = <<>> THEN Ret(list, Unit)
    ELSE LET r == RcPushBack(list, Head(vals))
         IN  IF r.res = Panic THEN r ELSE RcFromVecLoop(r.st, Tail(vals))

\* RcFromVec that leaves out a value equal to the one before it.
RcFromVecNoRepeats(vals) ==
    LET keep == SelectSeq([i \in 1..Len(vals) |-> i],
                          LAMBDA i : i = 1 \/ vals[i - 1] # vals[i])
    IN  RcFromVecLoop(RcNew, [j \in 1..Len(keep) |-> vals[keep[j]]])

RcFromVec(vals) == RcFromVecLoop(RcNew, vals)

----------------------------------------------------------------------------
\* Box variant: linear/box_linked_list.rs

BxNew == [len |-> 0, head |-> None, nodes |-> <<>>]

\* #[derive(Clone)]: len is copied and Option<Box<LinkedListNode>> is cloned
\* node by node (value.clone(), next.clone()) into new allocations.
BxClone(l) ==
    LET vals == ValuesFrom(l.nodes, l.head)
    IN  [len |-> l.len,
         head |-> IF vals = <<>> THEN None ELSE 1,
         nodes |-> [i \in 1..Len(vals) |->
                       Node(vals[i], IF i = Len(vals) THEN None ELSE i + 1)]]

\* LinkedListNode::insert on node p
BxNodeInsert(nodes, p, v) ==
    LET id == Fresh(nodes)
    IN  [Alloc(nodes, id, v, nodes[p].next) EXCEPT ![p].next = id]

\* BxNodeRemove that takes the successor and everything behind it.
BxNodeRemoveDropsRest(nodes, p) ==
    LET n == nodes[p].next
    IN  IF n = None
        THEN Ret(nodes, Err("RemoveWhileNextIsNone"))
        ELSE Ret(Free([nodes EXCEPT ![p].next = None], {n}), Ok(nodes[n].value))

\* LinkedListNode::remove on node p: the heap afterwards and the result
BxNodeRemove(nodes, p) ==
    LET n == nodes[p].next
    IN  IF n = None
        THEN Ret(nodes, Err("RemoveWhileNextIsNone"))
        ELSE Ret(Free([nodes EXCEPT ![p].next = nodes[n].next], {n}), Ok(nodes[n].value))

BxPushHead(l, v) ==
    LET id == Fresh(l.nodes)
    IN  Ret([l EXCEPT !.nodes = Alloc(l.nodes, id, v, l.head),
                      !.head = id, !.len = l.len + 1], Unit)

\* while current.next.is_some() { current = current.next.unwrap() }
RECURSIVE BxLast(_, _, _)
BxLast(nodes, p, fuel) ==
    IF nodes[p].next = None \/ fuel = 0 THEN p ELSE BxLast(nodes, nodes[p].next, fuel - 1)

BxPushBack(l, v) ==
    IF l.len = 0 THEN BxPushHead(l, v)
    ELSE IF l.head = None THEN Ret(l, Panic)
    ELSE LET current == BxLast(l.nodes, l.head, Cardinality(DOMAIN l.nodes))
         IN  Ret([l EXCEPT !.nodes = BxNodeInsert(l.nodes, current, v),
                           !.len = l.len + 1], Unit)

\* BxPopHead that leaves len as it was.
BxPopHeadKeepsLen(l) ==
    IF l.len = 0 THEN Ret(l, Err("PopFromEmptyList"))
    ELSE IF l.head = None THEN Ret(l, Panic)
    ELSE Ret([l EXCEPT !.head = l.nodes[l.head].next,
                       !.nodes = Free(l.nodes, {l.head})], Ok(l.nodes[l.head].value))

BxPopHead(l) ==
    IF l.len = 0 THEN Ret(l, Err("PopFromEmptyList"))
    ELSE IF l.head = None THEN Ret(l, Panic)
    ELSE Ret([l EXCEPT !.head = l.nodes[l.head].next,
                       !.nodes = Free(l.nodes, {l.head}),
                       !.len = l.len - 1], Ok(l.nodes[l.head].value))

\* while current.next.unwrap().next.is_some() { current = current.next.unwrap() }
\* None when the unwrap fails.
RECURSIVE BxBeforeLast(_, _, _)
BxBeforeLast(nodes, p, fuel) ==
    IF nodes[p].next = None THEN None
    ELSE IF nodes[nodes[p].next].next = None \/ fuel = 0 THEN p
    ELSE BxBeforeLast(nodes, nodes[p].next, fuel - 1)

BxPopBack(l) ==
    IF l.len = 0 THEN Ret(l, Err("PopFromEmptyList"))
    ELSE IF l.len = 1 THEN BxPopHead(l)
    ELSE IF l.head = None THEN Ret(l, Panic)
    ELSE LET current == BxBeforeLast(l.nodes, l.head, Cardinality(DOMAIN l.nodes))
         IN  IF current = None THEN Ret(l, Panic)
             ELSE LET r == BxNodeRemove(l.nodes, current)
                  IN  Ret([l EXCEPT !.nodes = r.st, !.len = l.len - 1], r.res)

BxInsert(l, v, at) ==
    IF at = 0 THEN Ret(BxPushHead(l, v).st, OkUnit)
    ELSE IF 0 < at /\ at < l.len + 1
    THEN LET current == Hop(l.nodes, l.head, at - 1)
         IN  IF current = None THEN Ret(l, Panic)
             ELSE Ret([l EXCEPT !.nodes = BxNodeInsert(l.nodes, current, v),
                                !.len = l.len + 1], OkUnit)
    ELSE Ret(l, Err("InsertOutOfRange"))

\* BxRemove that accepts the index len.
BxRemoveInclusive(l, at) ==
    IF l.len = 0 THEN Ret(l, Err("RemoveFromEmptyList"))
    ELSE IF at = 0 THEN BxPopHead(l)
    ELSE IF 0 < at /\ at <= l.len
    THEN LET current == Hop(l.nodes, l.head, at - 1)
         IN  IF current = None THEN Ret(l, Panic)
             ELSE LET r == BxNodeRemove(l.nodes, current)
                  IN  Ret([l EXCEPT !.nodes = r.st, !.len = l.len - 1], r.res)
    ELSE Ret(l, Err("RemoveOutOfRange"))

\* BxRemove that looks at the index before it looks at len, as the Rc remove does.
BxRemoveIndexFirst(l, at) ==
    IF at = 0
    THEN IF l.len = 0 THEN Ret(l, Err("RemoveFromEmptyList")) ELSE BxPopHead(l)
    ELSE IF 0 < at /\ at < l.len
    THEN LET current == Hop(l.nodes, l.head, at - 1)
         IN  IF current = None THEN Ret(l, Panic)
             ELSE LET r == BxNodeRemove(l.nodes, current)
                  IN  Ret([l EXCEPT !.nodes = r.st, !.len = l.len - 1], r.res)
    ELSE Ret(l, Err("RemoveOutOfRange"))

BxRemove(l, at) ==
    IF l.len = 0 THEN Ret(l, Err("RemoveFromEmptyList"))
    ELSE IF at = 0 THEN BxPopHead(l)
    ELSE IF 0 < at /\ at < l.len
    THEN LET current == Hop(l.nodes, l.head, at - 1)
         IN  IF current = None THEN Ret(l, Panic)
             ELSE LET r == BxNodeRemove(l.nodes, current)
                  IN  Ret([l EXCEPT !.nodes = r.st, !.len = l.len - 1], r.res)
    ELSE Ret(l, Err("RemoveOutOfRange"))

\* for ix in 0..len { compare; if current.next.is_some() { current = next } }
RECURSIVE BxVal2IxLoop(_, _, _, _, _)
BxVal2IxLoop(l, v, current, ix, acc) ==
    IF ix >= l.len THEN acc
    ELSE BxVal2IxLoop(l, v,
            IF l.nodes[current].next # None THEN l.nodes[current].next ELSE current,
            ix + 1,
            IF l.nodes[current].value = v THEN Append(acc, ix) ELSE acc)

BxVal2Ix(l, v) ==
    IF l.len = 0 THEN Ret(l, Vec(<<>>))
    ELSE IF l.head = None THEN Ret(l, Panic)
    ELSE Ret(l, Vec(BxVal2IxLoop(l, v, l.head, 0, <<>>)))

\* BxIx2Val that takes the element out of the list to read it.
BxIx2ValTakes(l, ix) ==
    IF ix >= l.len THEN Ret(l, NoValue)
    ELSE LET r == BxRemove(l, ix)
         IN  IF r.res.tag = "Ok" THEN Ret(r.st, Some(r.res.val[1])) ELSE Ret(l, Panic)

BxIx2Val(l, ix) ==
    IF ix >= l.len THEN Ret(l, NoValue)
    ELSE LET current == Hop(l.nodes, l.head, ix)
         IN  IF current = None THEN Ret(l, Panic)
             ELSE Ret(l, Some(l.nodes[current].value))

BxGet(l, ix) == BxIx2Val(l, ix)

\* head = None drops the whole chain
BxClean(l) ==
    Ret([l EXCEPT !.head = None,
                  !.nodes = Free(l.nodes, SeqToSet(Chain(l.nodes, l.head))),
                  !.len = 0], Unit)

\* from_iter: list = new(); for val in iter { list.push_back(val) }
RECURSIVE BxFromIterLoop(_, _)
BxFromIterLoop(list, vals) ==
    IF vals = <<>> THEN Ret(list, Unit)
    ELSE LET r == BxPushBack(list, Head(vals))
         IN  IF r.res = Panic THEN r ELSE BxFromIterLoop(r.st, Tail(vals))

BxFromIter(vals) == BxFromIterLoop(BxNew, vals)

\* An iterator is its field current; a call of next() gives the iterator
\* afterwards (cur), the heap afterwards (nodes) and the returned value (res).
ItRet(cur, nodes, r) == [cur |-> cur, nodes |-> nodes, res |-> r]

\* into_iter(self): the iterator takes the chain of the list.
BxIntoIter(l) == l.head

\* LinkedListIterator::next: the node is taken out of current, its next
\* becomes current, its value is returned and its box is dropped.
BxIterNext(nodes, current) ==
    IF current # None
    THEN ItRet(nodes[current].next, Free(nodes, {current}), Some(nodes[current].value))
    ELSE ItRet(None, nodes, NoValue)

\* iter(&self)
BxIter(l) == l.head

\* LinkedListBorrowIterator::next
BxBorrowNext(nodes, current) ==
    IF current # None
    THEN ItRet(nodes[current].next, nodes, Some(nodes[current].value))
    ELSE ItRet(None, nodes, NoValue)

\* iter_mut(&mut self)
BxIterMut(l) == l.head

\* LinkedListBorrowMutIterator::next: the value returned is the one behind
\* the &mut reference it yields.
\* BxBorrowMutNext that steps over two nodes at a time.
BxBorrowMutNextSkips(nodes, current) ==
    IF current # None
    THEN ItRet(IF nodes[current].next # None THEN nodes[nodes[current].next].next ELSE None,
               nodes, Some(nodes[current].value))
    ELSE ItRet(None, nodes, NoValue)

BxBorrowMutNext(nodes, current) ==
    IF current # None
    THEN ItRet(nodes[current].next, nodes, Some(nodes[current].value))
    ELSE ItRet(None, nodes, NoValue)

----------------------------------------------------------------------------
\* NonNull variant: linear/nonull_linked_list.rs
\* A node is allocated by Box::into_raw and freed by Box::from_raw; the heap
\* holds the allocated nodes.  Freed == -1 is what a traversal yields when it
\* dereferences an address that is not allocated.

NnNew == [len |-> 0, head |-> None, tail |-> None, nodes |-> <<>>]

Freed == -1

Dangling(nodes, p) == p # None /\ p \notin DOMAIN nodes

\* current = p; n times: current = current.unwrap().as_ref().next; then
\* current.unwrap() is dereferenced.  None when an unwrap fails.
RECURSIVE NnHop(_, _, _)
NnHop(nodes, p, n) ==
    IF p = None THEN None
    ELSE IF p \notin DOMAIN nodes THEN Freed
    ELSE IF n <= 0 THEN p
    ELSE NnHop(nodes, nodes[p].next, n - 1)

NnPushHead(l, v) ==
    LET id == Fresh(l.nodes)
    IN  IF l.head # None
        THEN Ret([l EXCEPT !.nodes = Alloc(l.nodes, id, v, l.head),
                           !.head = id, !.len = l.len + 1], Unit)
        ELSE Ret([l EXCEPT !.nodes = Alloc(l.nodes, id, v, l.head),
                           !.tail = id, !.head = id, !.len = l.len + 1], Unit)

NnPushBack(l, v) ==
    LET id == Fresh(l.nodes)
    IN  IF l.tail # None
        THEN IF Dangling(l.nodes, l.tail) THEN Ret(l, UB)
             ELSE Ret([l EXCEPT !.nodes = [Alloc(l.nodes, id, v, None) EXCEPT ![l.tail].next = id],
                                !.tail = id, !.len = l.len + 1], Unit)
        ELSE Ret([l EXCEPT !.nodes = Alloc(l.nodes, id, v, None),
                           !.head = id, !.tail = id, !.len = l.len + 1], Unit)

\* NnPopHead that forgets the node instead of freeing it.
NnPopHeadLeaks(l) ==
    IF l.head = None THEN Ret(l, Err("PopFromEmptyList"))
    ELSE IF Dangling(l.nodes, l.head) THEN Ret(l, UB)
    ELSE IF l.len = 0 THEN Ret(l, Panic)
    ELSE LET next == l.nodes[l.head].next
         IN  Ret([l EXCEPT !.head = next,
                           !.tail = IF next = None THEN None ELSE l.tail,
                           !.len = l.len - 1], Ok(l.nodes[l.head].value))

\* len is a usize: len -= 1 at 0 panics (overflow check of the test profile)
NnPopHead(l) ==
    IF l.head = None THEN Ret(l, Err("PopFromEmptyList"))
    ELSE IF Dangling(l.nodes, l.head) THEN Ret(l, UB)
    ELSE IF l.len = 0 THEN Ret(l, Panic)
    ELSE LET next == l.nodes[l.head].next
         IN  Ret([l EXCEPT !.head = next,
                           !.tail = IF next = None THEN None ELSE l.tail,
                           !.nodes = Free(l.nodes, {l.head}),
                           !.len = l.len - 1], Ok(l.nodes[l.head].value))

\* NnPopBack without the check for the empty list.
NnPopBackUnchecked(l) ==
    IF l.len = 1
    THEN IF l.head = None THEN Ret(l, Panic)
         ELSE IF Dangling(l.nodes, l.head) THEN Ret(l, UB)
         ELSE Ret([l EXCEPT !.head = None, !.tail = None, !.len = 0,
                            !.nodes = Free(l.nodes, {l.head})], Ok(l.nodes[l.head].value))
    ELSE LET current == NnHop(l.nodes, l.head, l.len - 2)
         IN  IF current = None THEN Ret(l, Panic)
             ELSE IF current = Freed THEN Ret(l, UB)
             ELSE LET tail_ptr == l.nodes[current].next
                  IN  IF tail_ptr = None THEN Ret(l, Panic)
                      ELSE IF Dangling(l.nodes, tail_ptr) THEN Ret(l, UB)
                      ELSE Ret([l EXCEPT !.nodes = Free([l.nodes EXCEPT ![current].next = None],
                                                        {tail_ptr}),
                                         !.tail = current, !.len = l.len - 1],
                               Ok(l.nodes[tail_ptr].value))

NnPopBack(l) ==
    IF l.len = 0 THEN Ret(l, Err("PopFromEmptyList"))
    ELSE IF l.len = 1
    THEN IF l.head = None THEN Ret(l, Panic)
         ELSE IF Dangling(l.nodes, l.head) THEN Ret(l, UB)
         ELSE Ret([l EXCEPT !.head = None, !.tail = None, !.len = 0,
                            !.nodes = Free(l.nodes, {l.head})], Ok(l.nodes[l.head].value))
    ELSE LET current == NnHop(l.nodes, l.head, l.len - 2)
         IN  IF current = None THEN Ret(l, Panic)
             ELSE IF current = Freed THEN Ret(l, UB)
             ELSE LET tail_ptr == l.nodes[current].next
                  IN  IF tail_ptr = None THEN Ret(l, Panic)
                      ELSE IF Dangling(l.nodes, tail_ptr) THEN Ret(l, UB)
                      ELSE Ret([l EXCEPT !.nodes = Free([l.nodes EXCEPT ![current].next = None],
                                                        {tail_ptr}),
                                         !.tail = current, !.len = l.len - 1],
                               Ok(l.nodes[tail_ptr].value))

\* NnInsert that links the new node one position too far.
NnInsertAfter(l, v, at) ==
    IF at > l.len THEN Ret(l, Err("InsertOutOfRange"))
    ELSE IF at = 0 THEN Ret(NnPushHead(l, v).st, OkUnit)
    ELSE IF at = l.len
    THEN LET r == NnPushBack(l, v) IN IF r.res = UB THEN r ELSE Ret(r.st, OkUnit)
    ELSE LET current == NnHop(l.nodes, l.head, at)
             id == Fresh(l.nodes)
         IN  IF current = None THEN Ret(l, Panic)
             ELSE IF current = Freed THEN Ret(l, UB)
             ELSE Ret([l EXCEPT !.nodes = [Alloc(l.nodes, id, v, l.nodes[current].next)
                                              EXCEPT ![current].next = id],
                                !.len = l.len + 1], OkUnit)

NnInsert(l, v, at) ==
    IF at > l.len THEN Ret(l, Err("InsertOutOfRange"))
    ELSE IF at = 0 THEN Ret(NnPushHead(l, v).st, OkUnit)
    ELSE IF at = l.len
    THEN LET r == NnPushBack(l, v) IN IF r.res = UB THEN r ELSE Ret(r.st, OkUnit)
    ELSE LET current == NnHop(l.nodes, l.head, at - 1)
             id == Fresh(l.nodes)
         IN  IF current = None THEN Ret(l, Panic)
             ELSE IF current = Freed THEN Ret(l, UB)
             ELSE Ret([l EXCEPT !.nodes = [Alloc(l.nodes, id, v, l.nodes[current].next)
                                              EXCEPT ![current].next = id],
                                !.len = l.len + 1], OkUnit)

\* NnRemove without the tail update on removal of the last node.
NnRemoveKeepsTail(l, at) ==
    IF at >= l.len THEN Ret(l, Err("RemoveOutOfRange"))
    ELSE IF at = 0 THEN NnPopHead(l)
    ELSE LET current == NnHop(l.nodes, l.head, at - 1)
         IN  IF current = None THEN Ret(l, Panic)
             ELSE IF current = Freed THEN Ret(l, UB)
             ELSE LET node_to_remove == l.nodes[current].next
                  IN  IF node_to_remove = None THEN Ret(l, Panic)
                      ELSE IF Dangling(l.nodes, node_to_remove) THEN Ret(l, UB)
                      ELSE Ret([l EXCEPT
                                  !.nodes = Free([l.nodes EXCEPT ![current].next =
                                                      l.nodes[node_to_remove].next],
                                                 {node_to_remove}),
                                  !.len = l.len - 1],
                               Ok(l.nodes[node_to_remove].value))

NnRemove(l, at) ==
    IF at >= l.len THEN Ret(l, Err("RemoveOutOfRange"))
    ELSE IF at = 0 THEN NnPopHead(l)
    ELSE LET current == NnHop(l.nodes, l.head, at - 1)
         IN  IF current = None THEN Ret(l, Panic)
             ELSE IF current = Freed THEN Ret(l, UB)
             ELSE LET node_to_remove == l.nodes[current].next
                  IN  IF node_to_remove = None THEN Ret(l, Panic)
                      ELSE IF Dangling(l.nodes, node_to_remove) THEN Ret(l, UB)
                      ELSE Ret([l EXCEPT
                                  !.nodes = Free([l.nodes EXCEPT ![current].next =
                                                      l.nodes[node_to_remove].next],
                                                 {node_to_remove}),
                                  !.tail = IF l.nodes[node_to_remove].next = None
                                           THEN current ELSE l.tail,
                                  !.len = l.len - 1],
                               Ok(l.nodes[node_to_remove].value))

\* while let Some(node) = current { compare; current = node.next; index += 1 }
\* <<-1>> stands for the dereference of a freed node.
RECURSIVE NnVal2IxLoop(_, _, _, _, _, _)
NnVal2IxLoop(l, v, current, index, acc, fuel) ==
    IF current = None \/ fuel = 0 THEN acc
    ELSE IF current \notin DOMAIN l.nodes THEN <<Freed>>
    ELSE NnVal2IxLoop(l, v, l.nodes[current].next, index + 1,
                      IF l.nodes[current].value = v THEN Append(acc, index) ELSE acc,
                      fuel - 1)

NnVal2Ix(l, v) ==
    LET s == NnVal2IxLoop(l, v, l.head, 0, <<>>, Cardinality(DOMAIN l.nodes) + 1)
    IN  IF s = <<Freed>> THEN Ret(l, UB) ELSE Ret(l, Vec(s))

NnIx2Val(l, ix) ==
    IF ix >= l.len THEN Ret(l, NoValue)
    ELSE LET current == NnHop(l.nodes, l.head, ix)
         IN  IF current = None THEN Ret(l, Panic)
             ELSE IF current = Freed THEN Ret(l, UB)
             ELSE Ret(l, Some(l.nodes[current].value))

NnGet(l, ix) ==
    IF ix >= l.len THEN Ret(l, NoValue)
    ELSE LET current == NnHop(l.nodes, l.head, ix)
         IN  IF current = None THEN Ret(l, Panic)
             ELSE IF current = Freed THEN Ret(l, UB)
             ELSE Ret(l, Some(l.nodes[current].value))

\* while self.pop_head().is_ok() {}
RECURSIVE NnCleanLoop(_, _)
NnCleanLoop(l, fuel) ==
    LET r == NnPopHead(l)
    IN  IF r.res.tag = "Ok" /\ fuel > 0 THEN NnCleanLoop(r.st, fuel - 1)
        ELSE IF r.res.tag = "Err" THEN Ret(l, Unit)
        ELSE Ret(l, r.res)

NnClean(l) == NnCleanLoop(l, Cardinality(DOMAIN l.nodes) + 1)

\* Clone: new_list = new(); for item in self.iter() { new_list.push_back(item.clone()) }
RECURSIVE NnCloneLoop(_, _, _, _)
NnCloneLoop(l, current, new_list, fuel) ==
    IF current = None \/ fuel = 0 THEN Ret(new_list, Unit)
    ELSE IF current \notin DOMAIN l.nodes THEN Ret(new_list, UB)
    ELSE NnCloneLoop(l, l.nodes[current].next,
                     NnPushBack(new_list, l.nodes[current].value).st, fuel - 1)

NnClone(l) == NnCloneLoop(l, l.head, NnNew, Cardinality(DOMAIN l.nodes) + 1)

\* from_iter: list = new(); for item in iter { list.push_back(item) }
RECURSIVE NnFromIterLoop(_, _)
NnFromIterLoop(list, vals) ==
    IF vals = <<>> THEN Ret(list, Unit)
    ELSE LET r == NnPushBack(list, Head(vals))
         IN  IF r.res = UB THEN r ELSE NnFromIterLoop(r.st, Tail(vals))

NnFromIter(vals) == NnFromIterLoop(NnNew, vals)

\* Drop for LinkedList: every node from head on is freed.
NnDrop(l) == Free(l.nodes, SeqToSet(Chain(l.nodes, l.head)))

\* into_iter(self): the iterator copies the pointer head, and self is
\* dropped when into_iter returns: the iterator afterwards and the heap
\* afterwards.
NnIntoIter(l) == ItRet(l.head, NnDrop(l), Unit)

\* LinkedListIterator::next (the value is cloned out of the node).  UB when
\* current points at a freed node.
NnIterNext(nodes, current) ==
    IF current = None THEN ItRet(None, nodes, NoValue)
    ELSE IF current \notin DOMAIN nodes THEN ItRet(current, nodes, UB)
    ELSE ItRet(nodes[current].next, nodes, Some(nodes[current].value))

\* iter(&self)
NnIter(l) == l.head

\* LinkedListBorrowIterator::next
\* NnBorrowNext that stops one node early.
NnBorrowNextStopsEarly(nodes, current) ==
    IF current = None THEN ItRet(None, nodes, NoValue)
    ELSE IF current \notin DOMAIN nodes THEN ItRet(current, nodes, UB)
    ELSE IF nodes[current].next = None THEN ItRet(None, nodes, NoValue)
    ELSE ItRet(nodes[current].next, nodes, Some(nodes[current].value))

NnBorrowNext(nodes, current) ==
    IF current = None THEN ItRet(None, nodes, NoValue)
    ELSE IF current \notin DOMAIN nodes THEN ItRet(current, nodes, UB)
    ELSE ItRet(nodes[current].next, nodes, Some(nodes[current].value))

\* iter_mut(&mut self)
NnIterMut(l) == l.head

\* LinkedListBorrowMutIterator::next
NnBorrowMutNext(nodes, current) ==
    IF current = None THEN ItRet(None, nodes, NoValue)
    ELSE IF current \notin DOMAIN nodes THEN ItRet(current, nodes, UB)
    ELSE ItRet(nodes[current].next, nodes, Some(nodes[current].value))

----------------------------------------------------------------------------
\* Display: "(v1 -> v2 -> ... -> vk)", "()" for the empty list.

RECURSIVE Join(_, _)
Join(vals, first) ==
    IF vals = <<>> THEN ""
    ELSE (IF first THEN "" ELSE " -> ") \o ToString(Head(vals)) \o Join(Tail(vals), FALSE)

\* Rc and NonNull: while let Some(node) = curr { ...; curr = node.next }
RcDisplay(l) == "(" \o Join(ValuesFrom(l.nodes, l.head), TRUE) \o ")"

NnDisplay(l) == "(" \o Join(ValuesFrom(l.nodes, l.head), TRUE) \o ")"

\* Box: for _ in 0..len { write curr.value; if curr.next.is_some() { curr = next } }
RECURSIVE BxDisplayLoop(_, _, _)
BxDisplayLoop(l, curr, n) ==
    IF n = 0 THEN <<>>
    ELSE <<l.nodes[curr].value>> \o
         BxDisplayLoop(l, IF l.nodes[curr].next # None THEN l.nodes[curr].next ELSE curr, n - 1)

BxDisplay(l) ==
    IF l.len = 0 THEN "()"
    ELSE IF l.head = None THEN "panic"
    ELSE "(" \o Join(BxDisplayLoop(l, l.head, l.len), TRUE) \o ")"

----------------------------------------------------------------------------
\* Node addresses carry no meaning beyond identity.  Before each call the
\* nodes are renamed 1..n in the order head chain, tail chain, others, so
\* that lists that differ only in addresses are one state.

RECURSIVE Uniq(_, _)
Uniq(s, seen) ==
    IF s = <<>> THEN <<>>
    ELSE IF Head(s) \in seen THEN Uniq(Tail(s), seen)
    ELSE <<Head(s)>> \o Uniq(Tail(s), seen \cup {Head(s)})

RECURSIVE Sorted(_)
Sorted(S) ==
    IF S = {} THEN <<>>
    ELSE LET m == CHOOSE x \in S : \A y \in S : x <= y IN <<m>> \o Sorted(S \ {m})

Order(nodes, head, tail) ==
    LET ht == Uniq(Chain(nodes, head) \o Chain(nodes, tail), {})
    IN  ht \o Sorted(DOMAIN nodes \ SeqToSet(ht))

Rename(ord, p) ==
    IF p = None THEN None
    ELSE IF \E k \in 1..Len(ord) : ord[k] = p
    THEN CHOOSE k \in 1..Len(ord) : ord[k] = p
    ELSE Len(ord) + 1

Renamed(nodes, ord) ==
    [k \in 1..Len(ord) |-> Node(nodes[ord[k]].value, Rename(ord, nodes[ord[k]].next))]

RcCanon(l) ==
    LET ht == Uniq(Chain(l.nodes, l.head) \o Chain(l.nodes, l.tail)
                   \o HeldChains(l.nodes, l.held), {})
        ord == ht \o Sorted(DOMAIN l.nodes \ SeqToSet(ht))
    IN  [len |-> l.len, head |-> Rename(ord, l.head), tail |-> Rename(ord, l.tail),
         nodes |-> Renamed(l.nodes, ord),
         held |-> [i \in 1..Len(l.held) |-> Rename(ord, l.held[i])]]

BxCanon(l) ==
    LET ord == Order(l.nodes, l.head, None)
    IN  [len |-> l.len, head |-> Rename(ord, l.head), nodes |-> Renamed(l.nodes, ord)]

NnCanon(l) ==
    LET ord == Order(l.nodes, l.head, l.tail)
    IN  [len |-> l.len, head |-> Rename(ord, l.head), tail |-> Rename(ord, l.tail),
         nodes |-> Renamed(l.nodes, ord)]

----------------------------------------------------------------------------
\* The program: the same call on the three lists, one call at a time.
\* Between calls (call.name = "none") the lists are at rest and pre holds the
\* same lists as rc, bx and nn; a call leaves the lists it started from in pre.

NoCall == [name |-> "none", val |-> 0, at |-> 0, seq |-> <<>>]
NoRes == [rc |-> Unit, bx |-> Unit, nn |-> Unit]

\* No clone taken: cl.made is FALSE.  Once taken, cl holds the len of the Rc
\* clone (its head and tail are rc.held), the Box and NonNull clones, and
\* what len() and get(i) returned on each clone right after clone().
NoWas == [len |-> 0, get |-> <<>>]
NoClone ==
    [made |-> FALSE, rc |-> [len |-> 0], bx |-> BxNew, nn |-> NnNew,
     was |-> [rc |-> NoWas, bx |-> NoWas, nn |-> NoWas]]

\* No iterator in use: it.kind is "none".  An iterator is its kind
\* (into_iter, iter, iter_mut), its field current (cur), the function the
\* caller applies through the references of iter_mut (f), the values next()
\* returned so far (out), what the last next() returned (last), how often
\* next() returned None (nones), the list it was created on (src) and, for
\* into_iter on a NonNull list, what the nodes held when they were freed
\* (ghost).
NoIt ==
    [kind |-> "none", f |-> "none", cur |-> None, out |-> <<>>, last |-> Unit,
     nones |-> 0, src |-> BxNew, ghost |-> <<>>]

\* No node owned outside a list: nd.kind is "none".  Otherwise nd is the
\* variant of the node (rc, bx), the node the caller owns (root), the heap
\* with the node and its successors, the heap before the last call (was),
\* the last call (op) and what it returned (res).
NoNode ==
    [kind |-> "none", root |-> None, nodes |-> <<>>, was |-> <<>>, op |-> "none",
     res |-> Unit]

\* linked_list.rs, LinkedList::new(): head is None.  Next to the list, the
\* caller's record of it: the values pushed and not popped since (stack),
\* how often push was called (pushes), how often pop returned Some (pops),
\* the stack before the last call (was), the last call (op) and what it
\* returned (res).
MlNew ==
    [head |-> None, nodes |-> <<>>, stack |-> <<>>, was |-> <<>>, pushes |-> 0,
     pops |-> 0, op |-> "none", res |-> Unit]

\* The functions a caller applies to the elements through iter_mut.
Funs == {"succ", "one"}
Apply(f, v) == IF f = "succ" THEN (v % MaxVal) + 1 ELSE 1

Idle == call = NoCall /\ it = NoIt

Aborted == \E k \in {"rc", "bx", "nn"} : res[k].tag \in {"Panic", "UB"}

\* A push or insert is called only while every list has fewer than MaxLen
\* elements and the Rc heap holds fewer than MaxLen nodes (a stale tail can
\* keep removed nodes alive).
Room ==
    /\ rc.len < MaxLen /\ bx.len < MaxLen /\ nn.len < MaxLen
    /\ Cardinality(DOMAIN rc.nodes) < MaxLen

Call(c, r, b, n) ==
    /\ Idle
    /\ pre' = pre
    /\ call' = c
    /\ rc' = IF "rc" \in on THEN r.st ELSE rc
    /\ bx' = IF "bx" \in on THEN b.st ELSE bx
    /\ nn' = IF "nn" \in on THEN n.st ELSE nn
    /\ res' = [rc |-> IF "rc" \in on THEN r.res ELSE Unit,
               bx |-> IF "bx" \in on THEN b.res ELSE Unit,
               nn |-> IF "nn" \in on THEN n.res ELSE Unit]
    /\ on' = on
    /\ cl' = cl
    /\ it' = it
    /\ UNCHANGED <<nd, ml>>

Start(variants) ==
    /\ rc = RcNew
    /\ bx = BxNew
    /\ nn = NnNew
    /\ pre = [rc |-> RcNew, bx |-> BxNew, nn |-> NnNew]
    /\ call = NoCall
    /\ res = NoRes
    /\ on = variants
    /\ cl = NoClone
    /\ it = NoIt
    /\ nd = NoNode
    /\ ml = MlNew

\* One list, of any of the three variants.
Init == \E k \in {"rc", "bx", "nn"} : Start({k})


PushHead ==
    \E v \in Vals :
        /\ Room
        /\ Call([name |-> "push_head", val |-> v, at |-> 0, seq |-> <<>>],
                RcPushHead(rc, v), BxPushHead(bx, v), NnPushHead(nn, v))

PushBack ==
    \E v \in Vals :
        /\ Room
        /\ Call([name |-> "push_back", val |-> v, at |-> 0, seq |-> <<>>],
                RcPushBack(rc, v), BxPushBack(bx, v), NnPushBack(nn, v))

PopHead ==
    Call([name |-> "pop_head", val |-> 0, at |-> 0, seq |-> <<>>],
         RcPopHead(rc), BxPopHead(bx), NnPopHead(nn))

PopBack ==
    Call([name |-> "pop_back", val |-> 0, at |-> 0, seq |-> <<>>],
         RcPopBack(rc), BxPopBack(bx), NnPopBack(nn))

Insert ==
    \E v \in Vals, at \in Indices :
        /\ Room
        /\ Call([name |-> "insert", val |-> v, at |-> at, seq |-> <<>>],
                RcInsert(rc, v, at), BxInsert(bx, v, at), NnInsert(nn, v, at))

Remove ==
    \E at \in Indices :
        Call([name |-> "remove", val |-> 0, at |-> at, seq |-> <<>>],
             RcRemove(rc, at), BxRemove(bx, at), NnRemove(nn, at))

Get ==
    \E ix \in Indices :
        Call([name |-> "get", val |-> 0, at |-> ix, seq |-> <<>>],
             RcGet(rc, ix), BxGet(bx, ix), NnGet(nn, ix))

Ix2Val ==
    \E ix \in Indices :
        Call([name |-> "ix2val", val |-> 0, at |-> ix, seq |-> <<>>],
             RcIx2Val(rc, ix), BxIx2Val(bx, ix), NnIx2Val(nn, ix))

Val2Ix ==
    \E v \in Vals :
        Call([name |-> "val2ix", val |-> v, at |-> 0, seq |-> <<>>],
             RcVal2Ix(rc, v), BxVal2Ix(bx, v), NnVal2Ix(nn, v))

Clean ==
    Call([name |-> "clean", val |-> 0, at |-> 0, seq |-> <<>>],
         RcClean(rc), BxClean(bx), NnClean(nn))

\* The call returns to the caller, unless it aborted the process.
Return ==
    /\ call # NoCall
    /\ ~Aborted
    /\ rc' = RcCanon(rc)
    /\ bx' = BxCanon(bx)
    /\ nn' = NnCanon(nn)
    /\ pre' = [rc |-> rc', bx |-> bx', nn |-> nn']
    /\ call' = NoCall
    /\ res' = NoRes
    /\ on' = on
    /\ cl' = cl
    /\ it' = it
    /\ UNCHANGED <<nd, ml>>

\* c = list.clone(), once; the calls that follow are made on list.
CloneList ==
    LET r == RcClone(rc)
        b == BxClone(bx)
        n == NnClone(nn)
    IN  /\ Idle
        /\ ~cl.made
        /\ call' = [name |-> "clone", val |-> 0, at |-> 0, seq |-> <<>>]
        /\ pre' = pre
        /\ rc' = IF "rc" \in on THEN r.st ELSE rc
        /\ bx' = bx
        /\ nn' = nn
        /\ res' = [rc |-> Unit, bx |-> Unit, nn |-> IF "nn" \in on THEN n.res ELSE Unit]
        /\ on' = on
        /\ it' = it
        /\ UNCHANGED <<nd, ml>>
        /\ cl' = [made |-> TRUE,
                  rc |-> [len |-> IF "rc" \in on THEN r.res.len ELSE 0],
                  bx |-> IF "bx" \in on THEN b ELSE BxNew,
                  nn |-> IF "nn" \in on THEN n.st ELSE NnNew,
                  was |-> [rc |-> IF "rc" \in on
                                  THEN [len |-> r.res.len,
                                        get |-> [i \in 1..r.res.len |->
                                                   RcGet(RcCloneView(r.st, r.res.len), i - 1).res]]
                                  ELSE NoWas,
                           bx |-> IF "bx" \in on
                                  THEN [len |-> b.len,
                                        get |-> [i \in 1..b.len |-> BxGet(b, i - 1).res]]
                                  ELSE NoWas,
                           nn |-> IF "nn" \in on
                                  THEN [len |-> n.st.len,
                                        get |-> [i \in 1..n.st.len |-> NnGet(n.st, i - 1).res]]
                                  ELSE NoWas]]

Next ==
    \/ PushHead
    \/ PushBack
    \/ PopHead
    \/ PopBack
    \/ Insert
    \/ Remove
    \/ Get
    \/ Ix2Val
    \/ Val2Ix
    \/ Clean
    \/ Return

Spec == Init /\ [][Next]_vars
\* An Rc list and a Box list, a Box list and a NonNull list: the same calls on both.
SpecRcBx == Start({"rc", "bx"}) /\ [][Next]_vars
SpecBxNn == Start({"bx", "nn"}) /\ [][Next]_vars

\* One list of any variant, of which a clone may be taken.
NextClone == Next \/ CloneList
SpecClone == Init /\ [][NextClone]_vars

\* len(), is_empty() and format!("{}", list).  The Rc variant has no is_empty.
\* len(): self.len
LenCall ==
    Call([name |-> "len", val |-> 0, at |-> 0, seq |-> <<>>],
         Ret(rc, Num(rc.len)), Ret(bx, Num(bx.len)), Ret(nn, Num(nn.len)))

\* is_empty(): self.len == 0
IsEmptyCall ==
    /\ "rc" \notin on
    /\ Call([name |-> "is_empty", val |-> 0, at |-> 0, seq |-> <<>>],
            Ret(rc, Unit), Ret(bx, Bool(bx.len = 0)), Ret(nn, Bool(nn.len = 0)))

\* format!("{}", list); the Box Display unwraps head when len > 0
DisplayCall ==
    Call([name |-> "display", val |-> 0, at |-> 0, seq |-> <<>>],
         Ret(rc, Text(RcDisplay(rc))),
         Ret(bx, IF BxDisplay(bx) = "panic" THEN Panic ELSE Text(BxDisplay(bx))),
         Ret(nn, Text(NnDisplay(nn))))

\* One list of any variant under its methods, the queries included.
NextQuery == Next \/ LenCall \/ IsEmptyCall \/ DisplayCall
SpecQuery == Init /\ [][NextQuery]_vars

\* list = from_iter(s) (from_vec(s) in the Rc variant), in place of a list
\* that is empty.
FromIter ==
    \E s \in Seqs :
        /\ rc.len = 0 /\ bx.len = 0 /\ nn.len = 0
        /\ ~cl.made
        /\ Call([name |-> "from_iter", val |-> 0, at |-> 0, seq |-> s],
                RcFromVec(s), BxFromIter(s), NnFromIter(s))

\* The Box and NonNull variants have iterators; one list, one iterator at a
\* time.  While the iterator is in use no method of the list is called.
CanIterate == Idle /\ on \in {{"bx"}, {"nn"}}

\* it = list.into_iter().  The list is moved: the Box iterator owns the
\* nodes from then on (they stay in bx.nodes), the NonNull list is dropped.
IntoIter ==
    /\ CanIterate
    /\ IF on = {"bx"}
       THEN /\ it' = [NoIt EXCEPT !.kind = "into_iter", !.cur = BxIntoIter(bx), !.src = bx]
            /\ bx' = [BxNew EXCEPT !.nodes = bx.nodes]
            /\ nn' = nn
       ELSE LET r == NnIntoIter(nn)
            IN  /\ it' = [NoIt EXCEPT !.kind = "into_iter", !.cur = r.cur, !.src = nn,
                                     !.ghost = nn.nodes]
                /\ nn' = [NnNew EXCEPT !.nodes = r.nodes]
                /\ bx' = bx
    /\ pre' = [pre EXCEPT !.bx = bx', !.nn = nn']
    /\ UNCHANGED <<rc, call, res, on, cl, nd, ml>>

\* it = list.iter()
Iter ==
    /\ CanIterate
    /\ it' = [NoIt EXCEPT !.kind = "iter",
                          !.cur = IF on = {"bx"} THEN BxIter(bx) ELSE NnIter(nn),
                          !.src = IF on = {"bx"} THEN bx ELSE nn]
    /\ UNCHANGED <<rc, bx, nn, pre, call, res, on, cl, nd, ml>>

\* it = list.iter_mut(); the caller will store f(x) through each reference x.
IterMut ==
    \E f \in Funs :
        /\ CanIterate
        /\ it' = [NoIt EXCEPT !.kind = "iter_mut", !.f = f,
                              !.cur = IF on = {"bx"} THEN BxIterMut(bx) ELSE NnIterMut(nn),
                              !.src = IF on = {"bx"} THEN bx ELSE nn]
        /\ UNCHANGED <<rc, bx, nn, pre, call, res, on, cl, nd, ml>>

\* The iterator after a call of next() that gave r.
Stepped(r) ==
    [it EXCEPT !.cur = r.cur,
               !.last = r.res,
               !.out = IF r.res.tag = "Some" THEN Append(it.out, r.res.val[1]) ELSE it.out,
               !.nones = IF r.res = NoValue THEN it.nones + 1 ELSE it.nones]

\* The nodes after the caller stored f(x) through the reference next() gave.
Stored(r) ==
    IF it.kind = "iter_mut" /\ r.res.tag = "Some"
    THEN [r.nodes EXCEPT ![it.cur].value = Apply(it.f, r.res.val[1])]
    ELSE r.nodes

\* it.next().  On a freed node (undefined behaviour) the call either reads
\* what the node held when it was freed, or faults.
ItNext ==
    /\ call = NoCall
    /\ it.kind # "none"
    /\ it.last # UB
    /\ it.nones < MaxNones
    /\ IF on = {"bx"}
       THEN LET r == IF it.kind = "into_iter" THEN BxIterNext(bx.nodes, it.cur)
                     ELSE IF it.kind = "iter" THEN BxBorrowNext(bx.nodes, it.cur)
                     ELSE BxBorrowMutNext(bx.nodes, it.cur)
            IN  /\ it' = Stepped(r)
                /\ bx' = [bx EXCEPT !.nodes = Stored(r)]
                /\ nn' = nn
       ELSE LET r == IF it.kind = "into_iter" THEN NnIterNext(nn.nodes, it.cur)
                     ELSE IF it.kind = "iter" THEN NnBorrowNext(nn.nodes, it.cur)
                     ELSE NnBorrowMutNext(nn.nodes, it.cur)
            IN  /\ IF r.res = UB
                   THEN \/ it' = [it EXCEPT !.last = UB]
                        \/ /\ it.cur \in DOMAIN it.ghost
                           /\ it' = Stepped(ItRet(it.ghost[it.cur].next, nn.nodes,
                                                  Some(it.ghost[it.cur].value)))
                   ELSE it' = Stepped(r)
                /\ nn' = [nn EXCEPT !.nodes = IF r.res = UB THEN nn.nodes ELSE Stored(r)]
                /\ bx' = bx
    /\ pre' = [pre EXCEPT !.bx = bx', !.nn = nn']
    /\ UNCHANGED <<rc, call, res, on, cl, nd, ml>>

\* The iterator is dropped.  After into_iter the nodes the iterator still
\* owns are dropped with it, and the caller goes on with a new list.
ItDrop ==
    /\ call = NoCall
    /\ it.kind # "none"
    /\ it.last # UB
    /\ it' = NoIt
    /\ bx' = IF it.kind = "into_iter" /\ on = {"bx"} THEN BxNew ELSE bx
    /\ nn' = IF it.kind = "into_iter" /\ on = {"nn"} THEN NnNew ELSE nn
    /\ pre' = [pre EXCEPT !.bx = bx', !.nn = nn']
    /\ UNCHANGED <<rc, call, res, on, cl, nd, ml>>

\* One list of any variant, built by from_iter or by calls, and its iterators.
NextIter == Next \/ FromIter \/ IntoIter \/ Iter \/ IterMut \/ ItNext \/ ItDrop
SpecIter == Init /\ [][NextIter]_vars

----------------------------------------------------------------------------
\* A caller that owns a node outside any list (the Rc and the Box variant
\* export LinkedListNode) and calls the node's own insert and remove on it.

\* node = LinkedListNode::new(v, None)
NodeNew ==
    \E k \in {"rc", "bx"}, v \in Vals :
        /\ nd = NoNode
        /\ nd' = [kind |-> k, root |-> 1, nodes |-> Alloc(<<>>, 1, v, None), was |-> <<>>,
                  op |-> "new", res |-> Unit]
        /\ UNCHANGED <<rc, bx, nn, pre, call, res, on, cl, it, ml>>

\* node.insert(v), while the node has at most MaxLen successors
NodeInsert ==
    \E v \in Vals :
        /\ nd.kind # "none"
        /\ Cardinality(DOMAIN nd.nodes) <= MaxLen
        /\ nd' = [nd EXCEPT !.nodes = IF nd.kind = "rc"
                                      THEN RcNodeInsert(nd.nodes, nd.root, v)
                                      ELSE BxNodeInsert(nd.nodes, nd.root, v),
                            !.was = nd.nodes,
                            !.op = "insert",
                            !.res = Unit]
        /\ UNCHANGED <<rc, bx, nn, pre, call, res, on, cl, it, ml>>

\* node.remove().  The Rc node that was removed is dropped with its last
\* reference; the Box node is freed by remove itself.
NodeRemove ==
    LET r == IF nd.kind = "rc" THEN RcNodeRemove(nd.nodes, nd.root)
             ELSE BxNodeRemove(nd.nodes, nd.root)
        live == SeqToSet(Chain(r.st, nd.root))
    IN  /\ nd.kind # "none"
        /\ nd' = [nd EXCEPT !.nodes = IF nd.kind = "rc"
                                      THEN Free(r.st, DOMAIN r.st \ live)
                                      ELSE r.st,
                            !.was = nd.nodes,
                            !.op = "remove",
                            !.res = r.res]
        /\ UNCHANGED <<rc, bx, nn, pre, call, res, on, cl, it, ml>>

\* The node goes out of scope.
NodeDrop ==
    /\ nd.kind # "none"
    /\ nd' = NoNode
    /\ UNCHANGED <<rc, bx, nn, pre, call, res, on, cl, it, ml>>

NextNode == NodeNew \/ NodeInsert \/ NodeRemove \/ NodeDrop
SpecNode == Start({}) /\ [][NextNode]_vars

----------------------------------------------------------------------------
\* The head-only list of linked_list.rs: push, pop, len and is_empty on a
\* chain of boxed nodes.

\* MlPush that does not link what was the head behind the new node.
MlPushDropsRest(l, v) == [l EXCEPT !.nodes = Alloc(<<>>, 1, v, None), !.head = 1]

\* push: new_node = Node { value, next: self.head.take() }; head = Some(new_node).
MlPush(l, v) ==
    LET id == Fresh(l.nodes)
    IN  [l EXCEPT !.nodes = Alloc(l.nodes, id, v, l.head), !.head = id]

\* pop: self.head.take().map(|node| { self.head = node.next; node.value })
MlPop(l) ==
    IF l.head = None THEN Ret(l, NoValue)
    ELSE Ret([l EXCEPT !.head = l.nodes[l.head].next,
                       !.nodes = Free(l.nodes, {l.head})],
             Some(l.nodes[l.head].value))

\* len: while let Some(node) = current { length += 1; current = &node.next }
RECURSIVE MlLenLoop(_, _, _)
MlLenLoop(nodes, current, length) ==
    IF current = None THEN length
    ELSE MlLenLoop(nodes, nodes[current].next, length + 1)

MlLen(l) == MlLenLoop(l.nodes, l.head, 0)

\* is_empty: self.head.is_none()
MlIsEmpty(l) == l.head = None

\* list.push(v), while the list has fewer than MaxLen elements
MlPushCall ==
    \E v \in Vals :
        /\ MlLen(ml) < MaxLen
        /\ ml.pushes < MaxPushes
        /\ ml' = [MlPush(ml, v) EXCEPT !.stack = Append(ml.stack, v),
                                       !.was = ml.stack,
                                       !.pushes = ml.pushes + 1,
                                       !.op = "push",
                                       !.res = Unit]
        /\ UNCHANGED <<rc, bx, nn, pre, call, res, on, cl, it, nd>>

\* list.pop()
MlPopCall ==
    LET r == MlPop(ml)
        took == r.res.tag = "Some"
    IN  /\ ml' = [r.st EXCEPT !.stack = IF took THEN SubSeq(ml.stack, 1, Len(ml.stack) - 1)
                                        ELSE ml.stack,
                              !.was = ml.stack,
                              !.pops = IF took THEN ml.pops + 1 ELSE ml.pops,
                              !.op = "pop",
                              !.res = r.res]
        /\ UNCHANGED <<rc, bx, nn, pre, call, res, on, cl, it, nd>>

NextMin == MlPushCall \/ MlPopCall
SpecMin == Start({}) /\ [][NextMin]_vars

----------------------------------------------------------------------------
\* Properties.

Tracked == {"rc", "nn"}       \* the variants with a tail field

Cur(k) == IF k = "rc" THEN rc ELSE IF k = "bx" THEN bx ELSE nn

\* The values from head to the end marker.
Values(l) == ValuesFrom(l.nodes, l.head)

\* get(ix) of variant k on list l
GetOf(k, l, ix) ==
    IF k = "rc" THEN RcGet(l, ix).res ELSE IF k = "bx" THEN BxGet(l, ix).res ELSE NnGet(l, ix).res

PushBackOf(k, l, v) ==
    IF k = "rc" THEN RcPushBack(l, v) ELSE IF k = "bx" THEN BxPushBack(l, v) ELSE NnPushBack(l, v)

DisplayOf(k, l) ==
    IF k = "rc" THEN RcDisplay(l) ELSE IF k = "bx" THEN BxDisplay(l) ELSE NnDisplay(l)

\* The node reached by n steps of next from head (None past the end).
Nth(l, n) == LET c == Chain(l.nodes, l.head) IN IF n + 1 <= Len(c) THEN c[n + 1] ELSE None

\* C1: in each variant, after any sequence of calls, len equals the number
\* of nodes reached by following next from head to the end marker.
C1_LenIsChainLength == \A k \in on : Cur(k).len = Len(Values(Cur(k)))

\* C2: in each variant no call aborts the process: no call ends in a failed
\* unwrap (or in the dereference of a freed node).
C2_NoAbort == \A k \in on : res[k].tag \notin {"Panic", "UB"}

\* C3: in the Rc variant, whenever len > 1, len - 1 steps of next from head
\* reach the node tail refers to.
C3_RcTailIsLast == ("rc" \in on /\ rc.len > 1) => Nth(rc, rc.len - 1) = rc.tail

\* C4: in the NonNull variant, whenever len > 1, len - 1 steps of next from
\* head reach the node tail refers to; remove(len-1) and pop_back leave tail
\* at the node that was second to last, and insert at index len leaves tail
\* at the new node.
C4_NnTailIsLast ==
    "nn" \in on =>
        /\ nn.len > 1 => (Nth(nn, nn.len - 1) = nn.tail /\ nn.tail # None)
        /\ (/\ call.name \in {"remove", "pop_back"}
            /\ res.nn.tag = "Ok"
            /\ pre.nn.len > 1
            /\ call.name = "remove" => call.at = pre.nn.len - 1)
           => (nn.tail = Nth(pre.nn, pre.nn.len - 2) /\ nn.tail = Nth(nn, nn.len - 1))
        /\ (call.name = "insert" /\ res.nn.tag = "Ok" /\ call.at = pre.nn.len)
           => /\ nn.tail \notin DOMAIN pre.nn.nodes
              /\ nn.tail = Nth(nn, nn.len - 1)
              /\ nn.nodes[nn.tail].value = call.val

C4_Witness ==
    /\ on = {"nn"}
    /\ call.name = "remove"
    /\ pre.nn.len = 3
    /\ call.at = 2
    /\ res.nn.tag = "Ok"
    /\ nn.len = 2
    /\ nn.tail = Nth(pre.nn, 1)

\* C5: in the Rc and NonNull variants, whenever tail refers to a node, that
\* node's next is none.
C5_TailNextIsNone ==
    \A k \in on \cap Tracked :
        Cur(k).tail # None =>
            (Cur(k).tail \in DOMAIN Cur(k).nodes /\ Cur(k).nodes[Cur(k).tail].next = None)

\* C6: in each variant len = 0 exactly when head is none, and in the Rc and
\* NonNull variants exactly when tail is none as well.
C6_EmptyIffNoHead ==
    \A k \in on :
        /\ (Cur(k).len = 0) <=> (Cur(k).head = None)
        /\ k \in Tracked => ((Cur(k).len = 0) <=> (Cur(k).tail = None))

\* C7: in the Rc and NonNull variants, whenever len = 1, head and tail refer
\* to the same node.
C7_OneNodeHeadIsTail ==
    \A k \in on \cap Tracked :
        Cur(k).len = 1 => (Cur(k).head = Cur(k).tail /\ Cur(k).head # None)

\* C8: in each variant push_back(v) increases len by one, makes v the last
\* element (get(len-1) = Some(v)) and leaves every element at its index.
C8_PushBackAppends ==
    call.name = "push_back" =>
        \A k \in on :
            /\ Cur(k).len = pre[k].len + 1
            /\ GetOf(k, Cur(k), Cur(k).len - 1) = Some(call.val)
            /\ \A i \in 0..(pre[k].len - 1) : GetOf(k, Cur(k), i) = GetOf(k, pre[k], i)

\* C9: in each variant, on a non-empty list, remove(len-1) followed by
\* push_back of the returned value restores the display string and len.
C9_RemoveLastPushBack ==
    (call.name = "remove" /\ \A k \in on : pre[k].len > 0 /\ call.at = pre[k].len - 1) =>
        \A k \in on :
            /\ res[k].tag = "Ok"
            /\ LET back == PushBackOf(k, Cur(k), res[k].val[1])
               IN  /\ back.res = Unit
                   /\ DisplayOf(k, back.st) = DisplayOf(k, pre[k])
                   /\ back.st.len = pre[k].len

\* C10: the same calls on an Rc list and a Box list, both new: every call
\* has the same outcome in both (the same value, or a failure in both) and
\* leaves both with the same len and the same values from head to tail.
SameOutcome(a, b) ==
    \/ a = b
    \/ a.tag = "Err" /\ b.tag = "Err"

C10_RcLikeBox ==
    {"rc", "bx"} \subseteq on =>
        /\ SameOutcome(res.rc, res.bx)
        /\ rc.len = bx.len
        /\ Values(rc) = Values(bx)

\* C11: the same calls on a Box list and a NonNull list, both new: every
\* call has the same outcome in both (the same value, or a failure in both)
\* and leaves both with the same len and the same values from head to tail.
C11_BoxLikeNonNull ==
    {"bx", "nn"} \subseteq on =>
        /\ SameOutcome(res.bx, res.nn)
        /\ bx.len = nn.len
        /\ Values(bx) = Values(nn)

C11_Witness ==
    /\ on = {"bx", "nn"}
    /\ call.name = "insert"
    /\ call.at = 1
    /\ pre.bx.len = 2
    /\ res.bx = OkUnit
    /\ res.nn = OkUnit
    /\ Values(bx) = <<1, 2, 1>>
    /\ Values(nn) = <<1, 2, 1>>

\* The clone of the list of variant k.
CloneOf(k) ==
    IF k = "rc" THEN RcCloneView(rc, cl.rc.len) ELSE IF k = "bx" THEN cl.bx ELSE cl.nn

\* C12: in each variant, after c = list.clone(), calls on list leave c as it
\* was: c.len() and c.get(i) for every i < c.len() return what they returned
\* right after clone().
C12_CloneUnaffected ==
    cl.made =>
        \A k \in on :
            /\ CloneOf(k).len = cl.was[k].len
            /\ \A i \in 1..cl.was[k].len : GetOf(k, CloneOf(k), i - 1) = cl.was[k].get[i]

\* C13: in each variant remove(0) on an empty list returns the error
\* RemoveFromEmptyList and leaves the list empty.
C13_RemoveFromEmpty ==
    (call.name = "remove" /\ call.at = 0) =>
        \A k \in on :
            pre[k].len = 0 =>
                /\ res[k] = Err("RemoveFromEmptyList")
                /\ Cur(k).len = 0
                /\ Cur(k).head = None

\* C14: in each variant insert(v, at) with 0 <= at <= len returns Ok,
\* increases len by one, makes get(at) = Some(v), leaves the elements at
\* indices < at in place and moves those at indices >= at up by one.
C14_InsertPlaces ==
    call.name = "insert" =>
        \A k \in on :
            call.at <= pre[k].len =>
                /\ res[k] = OkUnit
                /\ Cur(k).len = pre[k].len + 1
                /\ GetOf(k, Cur(k), call.at) = Some(call.val)
                /\ \A i \in 0..(pre[k].len - 1) :
                       GetOf(k, Cur(k), IF i < call.at THEN i ELSE i + 1) = GetOf(k, pre[k], i)

\* C15: in each variant remove(at) with 0 <= at < len returns Ok with the
\* value get(at) returned before the call, decreases len by one, leaves the
\* elements at indices < at in place and moves those at indices > at down
\* by one.
C15_RemoveTakes ==
    call.name = "remove" =>
        \A k \in on :
            call.at < pre[k].len =>
                /\ GetOf(k, pre[k], call.at).tag = "Some"
                /\ res[k] = Ok(GetOf(k, pre[k], call.at).val[1])
                /\ Cur(k).len = pre[k].len - 1
                /\ \A i \in 0..(pre[k].len - 2) :
                       GetOf(k, Cur(k), i) = GetOf(k, pre[k], IF i < call.at THEN i ELSE i + 1)

C19_PopBackTakesLast ==
    call.name = "pop_back" =>
        \A k \in on :
            pre[k].len >= 1 =>
                /\ GetOf(k, pre[k], pre[k].len - 1).tag = "Some"
                /\ res[k] = Ok(GetOf(k, pre[k], pre[k].len - 1).val[1])
                /\ Cur(k).len = pre[k].len - 1
                /\ \A i \in 0..(pre[k].len - 2) : GetOf(k, Cur(k), i) = GetOf(k, pre[k], i)

\* C20: in each variant push_head(v) increases len by one, makes
\* get(0) = Some(v) and moves every element up by one index; in the Rc and
\* NonNull variants it changes tail only when the list was empty.
C20_PushHeadPrepends ==
    call.name = "push_head" =>
        \A k \in on :
            /\ Cur(k).len = pre[k].len + 1
            /\ GetOf(k, Cur(k), 0) = Some(call.val)
            /\ \A i \in 0..(pre[k].len - 1) : GetOf(k, Cur(k), i + 1) = GetOf(k, pre[k], i)
            /\ Values(Cur(k)) = <<call.val>> \o Values(pre[k])
            /\ (k \in Tracked /\ pre[k].len > 0) => Cur(k).tail = pre[k].tail

C20_Witness ==
    /\ on = {"rc"}
    /\ call.name = "push_head"
    /\ call.val = 2
    /\ pre.rc.len = 2
    /\ rc.len = 3
    /\ rc.tail = pre.rc.tail
    /\ Values(rc) = <<2, 1, 1>>

\* pop_head() of variant k on list l
PopHeadOf(k, l) ==
    IF k = "rc" THEN RcPopHead(l) ELSE IF k = "bx" THEN BxPopHead(l) ELSE NnPopHead(l)

\* C21: in each variant pop_head() on a list with len >= 1 returns the value
\* at index 0, decreases len by one and moves every remaining element down
\* by one index; when the list becomes empty, head and tail are none.
C21_PopHeadTakesFirst ==
    call.name = "pop_head" =>
        \A k \in on :
            pre[k].len >= 1 =>
                /\ GetOf(k, pre[k], 0).tag = "Some"
                /\ res[k] = Ok(GetOf(k, pre[k], 0).val[1])
                /\ Cur(k).len = pre[k].len - 1
                /\ \A i \in 0..(pre[k].len - 2) : GetOf(k, Cur(k), i) = GetOf(k, pre[k], i + 1)
                /\ Cur(k).len = 0 =>
                       (Cur(k).head = None /\ (k \in Tracked => Cur(k).tail = None))

\* C22: in each variant push_head(v) followed at once by pop_head() returns
\* Ok(v) and restores the len and the values the list had before.
C22_PushHeadPopHead ==
    call.name = "push_head" =>
        \A k \in on :
            LET back == PopHeadOf(k, Cur(k))
            IN  /\ back.res = Ok(call.val)
                /\ back.st.len = pre[k].len
                /\ Values(back.st) = Values(pre[k])

C22_Witness ==
    /\ on = {"bx"}
    /\ call.name = "push_head"
    /\ call.val = 2
    /\ Values(pre.bx) = <<1, 1>>
    /\ Values(bx) = <<2, 1, 1>>
    /\ BxPopHead(bx).res = Ok(2)
    /\ Values(BxPopHead(bx).st) = <<1, 1>>

\* C23: in each variant get(ix), and ix2val(ix) alike, returns the ix-th
\* element counted from head when ix < len and None when ix >= len, and
\* leaves the list as it was.
C23_GetReturnsElement ==
    call.name \in {"get", "ix2val"} =>
        \A k \in on :
            /\ IF call.at < pre[k].len
               THEN /\ call.at < Len(Values(pre[k]))
                    /\ res[k] = Some(Values(pre[k])[call.at + 1])
               ELSE res[k] = NoValue
            /\ Cur(k) = pre[k]

\* The indices i < len with get(i) = Some(v), ascending.
IndicesOf(k, l, v) ==
    SelectSeq([i \in 1..l.len |-> i - 1], LAMBDA i : GetOf(k, l, i) = Some(v))

\* C24: in each variant val2ix(v) returns, in ascending order, exactly the
\* indices i < len with get(i) = v, the last index included, and the empty
\* sequence when there is none.
C24_Val2IxFindsAll ==
    call.name = "val2ix" =>
        \A k \in on :
            /\ res[k] = Vec(IndicesOf(k, pre[k], call.val))
            /\ Cur(k) = pre[k]

\* from_iter(s) (from_vec(s) in the Rc variant), clean() and a new list of
\* variant k
FromIterOf(k, vals) ==
    IF k = "rc" THEN RcFromVec(vals) ELSE IF k = "bx" THEN BxFromIter(vals) ELSE NnFromIter(vals)

CleanOf(k, l) ==
    IF k = "rc" THEN RcClean(l) ELSE IF k = "bx" THEN BxClean(l) ELSE NnClean(l)

PushHeadOf(k, l, v) ==
    IF k = "rc" THEN RcPushHead(l, v) ELSE IF k = "bx" THEN BxPushHead(l, v) ELSE NnPushHead(l, v)

NewOf(k) == IF k = "rc" THEN RcNew ELSE IF k = "bx" THEN BxNew ELSE NnNew

\* C25: in each variant from_iter(s) (from_vec(s)) gives a list with
\* len = |s| and get(i) = s[i] for every i < |s|, duplicates included, and
\* the empty list for the empty sequence.
C25_FromIterBuilds ==
    call.name = "from_iter" =>
        \A k \in on :
            /\ res[k] = Unit
            /\ Cur(k).len = Len(call.seq)
            /\ \A i \in 1..Len(call.seq) : GetOf(k, Cur(k), i - 1) = Some(call.seq[i])
            /\ call.seq = <<>> => Cur(k) = NewOf(k)

C25_Witness ==
    /\ on = {"rc"}
    /\ call.name = "from_iter"
    /\ call.seq = <<1, 2, 2>>
    /\ rc.len = 3
    /\ Values(rc) = <<1, 2, 2>>

\* C26: in the Box and NonNull variants, collecting L.into_iter() gives L's
\* len values from head to tail, and from_iter of them is a list with the
\* len, the values and the display string of L.
C26_IntoIterRoundTrip ==
    it.kind = "into_iter" =>
        \A k \in on :
            /\ it.last # UB
            /\ it.nones >= 1 =>
                   /\ it.out = Values(it.src)
                   /\ Len(it.out) = it.src.len
                   /\ LET back == FromIterOf(k, it.out)
                      IN  /\ back.res = Unit
                          /\ back.st.len = it.src.len
                          /\ Values(back.st) = Values(it.src)
                          /\ DisplayOf(k, back.st) = DisplayOf(k, it.src)

\* C27: in each variant clean() leaves len = 0, head none, tail none and
\* the display "()"; a second clean() leaves the same state, and pushes
\* after clean() do what they do on a new list.
C27_CleanEmpties ==
    call.name = "clean" =>
        \A k \in on :
            /\ res[k] = Unit
            /\ Cur(k).len = 0
            /\ Cur(k).head = None
            /\ k \in Tracked => Cur(k).tail = None
            /\ DisplayOf(k, Cur(k)) = "()"
            /\ CleanOf(k, Cur(k)) = Ret(Cur(k), Unit)
            /\ \A v \in Vals :
                   /\ PushHeadOf(k, Cur(k), v) = PushHeadOf(k, NewOf(k), v)
                   /\ PushBackOf(k, Cur(k), v) = PushBackOf(k, NewOf(k), v)

C27_Witness ==
    /\ on = {"rc"}
    /\ call.name = "clean"
    /\ pre.rc.len = 3
    /\ rc.len = 0
    /\ rc.head = None
    /\ rc.tail = None
    /\ rc.nodes = <<>>

IsPrefix(a, b) == Len(a) <= Len(b) /\ SubSeq(b, 1, Len(a)) = a

\* C28: in the Box and NonNull variants iter() on a list of length n gives
\* the n values from head to tail and then None, leaves the list as it was,
\* and a new iter() starts at the head.
C28_IterYieldsAll ==
    it.kind = "iter" =>
        \A k \in on :
            /\ it.last # UB
            /\ Cur(k) = it.src
            /\ IsPrefix(it.out, Values(it.src))
            /\ it.nones >= 1 =>
                   (it.last = NoValue /\ it.out = Values(it.src) /\ Len(it.out) = it.src.len)
            /\ it.last = Unit => it.cur = Cur(k).head

C28_Witness ==
    /\ on = {"nn"}
    /\ it.kind = "iter"
    /\ it.nones = 1
    /\ it.out = <<1, 2, 1>>
    /\ Values(nn) = <<1, 2, 1>>
    /\ nn.len = 3

\* f applied to every element of a sequence; the next links of a list.
MapF(f, vals) == [i \in 1..Len(vals) |-> Apply(f, vals[i])]
Links(l) == [a \in DOMAIN l.nodes |-> l.nodes[a].next]

\* C29: in the Box and NonNull variants iter_mut() visits every element
\* once from head to tail; storing f(x) through each reference turns the
\* values [v1..vn] into [f(v1)..f(vn)] and leaves len, head, tail and the
\* next links as they were.
C29_IterMutMapsInPlace ==
    it.kind = "iter_mut" =>
        \A k \in on :
            /\ it.last # UB
            /\ Cur(k).len = it.src.len
            /\ Cur(k).head = it.src.head
            /\ k \in Tracked => Cur(k).tail = it.src.tail
            /\ Links(Cur(k)) = Links(it.src)
            /\ IsPrefix(it.out, Values(it.src))
            /\ Values(Cur(k)) =
                   MapF(it.f, it.out)
                   \o SubSeq(Values(it.src), Len(it.out) + 1, Len(Values(it.src)))
            /\ it.nones >= 1 =>
                   /\ Len(it.out) = it.src.len
                   /\ Values(Cur(k)) = MapF(it.f, Values(it.src))

C29_Witness ==
    /\ on = {"bx"}
    /\ it.kind = "iter_mut"
    /\ it.f = "succ"
    /\ it.nones = 1
    /\ Values(it.src) = <<1, 2, 1>>
    /\ Values(bx) = <<2, 1, 2>>
    /\ bx.len = 3

\* C30: every iterator (into_iter, iter, iter_mut) comes to None: next()
\* returns a value at most len times, then None, and None on every call
\* after that.
C30_IteratorsEnd ==
    it.kind # "none" =>
        /\ it.last # UB
        /\ Len(it.out) <= it.src.len
        /\ it.nones >= 1 => (it.last = NoValue /\ it.cur = None)
        /\ it.nones = 0 => it.last # NoValue

\* C31: in each variant the chain from head is acyclic (following next from
\* head reaches the end marker) and no node is the next of two different
\* nodes.
C31_ChainIsAPath ==
    \A k \in on :
        /\ LET c == Chain(Cur(k).nodes, Cur(k).head)
           IN  \/ c = <<>>
               \/ /\ Cur(k).nodes[c[Len(c)]].next = None
                  /\ Cardinality(SeqToSet(c)) = Len(c)
        /\ \A n \in DOMAIN Cur(k).nodes :
               Cardinality({a \in DOMAIN Cur(k).nodes : Cur(k).nodes[a].next = n}) <= 1

\* The values separated by " -> ".
RECURSIVE Separated(_)
Separated(vals) ==
    IF vals = <<>> THEN ""
    ELSE IF Len(vals) = 1 THEN ToString(vals[1])
    ELSE Separated(SubSeq(vals, 1, Len(vals) - 1)) \o " -> " \o ToString(vals[Len(vals)])

\* C32: in each variant display gives "(" then the values of the list from
\* head on, separated by " -> ", then ")", "()" for the empty list, and the
\* number of values it renders equals len().
C32_DisplayFormat ==
    \A k \in on :
        LET l == Cur(k)
            text == DisplayOf(k, l)
        IN  /\ text = "(" \o Separated(Values(l)) \o ")"
            /\ l.len = 0 => text = "()"
            /\ \E vals \in Seqs : text = "(" \o Separated(vals) \o ")" /\ Len(vals) = l.len

\* Two lists of variant k in the same state: the same values from head on,
\* the same len and, where the variant has a tail field, the same tail.
SameState(k, a, b) ==
    /\ Values(a) = Values(b)
    /\ a.len = b.len
    /\ k \in Tracked => a.tail = b.tail

\* C36: in each variant insert(v, len()) leaves the list in the state
\* push_back(v) leaves it in (values, len, and tail where there is one), and
\* insert(v, 0) leaves it in the state push_head(v) leaves it in.
C36_InsertAtEnds ==
    call.name = "insert" =>
        \A k \in on :
            /\ call.at = pre[k].len =>
                   SameState(k, Cur(k), PushBackOf(k, pre[k], call.val).st)
            /\ call.at = 0 =>
                   SameState(k, Cur(k), PushHeadOf(k, pre[k], call.val).st)

RemoveAfterOn(k, l, c) ==
    IF k = "rc"
    THEN IF c.name = "pop_back" /\ l.len >= 2 THEN Hop(l.nodes, l.head, l.len - 2)
         ELSE IF c.name = "remove" /\ 0 < c.at /\ c.at < l.len
         THEN Hop(l.nodes, l.head, c.at - 1)
         ELSE None
    ELSE IF k = "bx"
    THEN IF c.name = "pop_back" /\ l.len >= 2 /\ l.head # None
         THEN BxBeforeLast(l.nodes, l.head, Cardinality(DOMAIN l.nodes))
         ELSE IF c.name = "remove" /\ 0 < c.at /\ c.at < l.len
         THEN Hop(l.nodes, l.head, c.at - 1)
         ELSE None
    ELSE None

\* C37: in each variant no call on the list returns the node's no-successor
\* error (NextIsNone, RemoveWhileNextIsNone), and whenever the list calls the
\* node's remove, that node has a successor.
C37_NoSuccessorErrorStaysInside ==
    \A k \in on :
        /\ res[k].err \notin {"NextIsNone", "RemoveWhileNextIsNone"}
        /\ LET p == RemoveAfterOn(k, pre[k], call)
           IN  p # None => pre[k].nodes[p].next # None

\* C34: in the NonNull variant the consuming iterator owns the chain: the
\* node its next() dereferences is still allocated (the drop of the moved
\* list has not freed it), next() never reads a freed node, and no node is
\* freed twice.
C34_IntoIterOwnsChain ==
    (on = {"nn"} /\ it.kind = "into_iter") =>
        /\ it.cur = None \/ it.cur \in DOMAIN nn.nodes
        /\ it.last # UB

\* The allocated nodes of l that following next from head does not reach.
Leaked(l) == DOMAIN l.nodes \ SeqToSet(Chain(l.nodes, l.head))

\* The nodes the call in progress freed.
FreedBy(before, after) == DOMAIN before.nodes \ DOMAIN after.nodes

\* C35: in the NonNull variant, after any sequence of calls, head, tail and
\* every next link lead to an allocated node or are None, every allocated
\* node is reached from head, no call reads or frees a freed node, a
\* successful pop_head, pop_back or remove frees exactly the one node that
\* held the returned value, clean frees every node, and the drop of the
\* list frees every node it still had.
C35_NnMemorySafe ==
    "nn" \in on =>
        /\ \A p \in {nn.head, nn.tail} \cup {nn.nodes[a].next : a \in DOMAIN nn.nodes} :
               ~Dangling(nn.nodes, p)
        /\ Leaked(nn) = {}
        /\ res.nn # UB
        /\ (call.name \in {"pop_head", "pop_back", "remove"} /\ res.nn.tag = "Ok") =>
               /\ DOMAIN nn.nodes \subseteq DOMAIN pre.nn.nodes
               /\ Cardinality(FreedBy(pre.nn, nn)) = 1
               /\ \A a \in FreedBy(pre.nn, nn) : res.nn = Ok(pre.nn.nodes[a].value)
        /\ (call.name \in {"pop_head", "pop_back", "remove"} /\ res.nn.tag = "Err") =>
               nn = pre.nn
        /\ call.name = "clean" => FreedBy(pre.nn, nn) = DOMAIN pre.nn.nodes
        /\ it.kind = "into_iter" =>
               /\ nn.nodes = <<>>
               /\ Leaked(it.src) = {}

C35_Witness ==
    /\ on = {"nn"}
    /\ call.name = "remove"
    /\ call.at = 1
    /\ pre.nn.len = MaxLen
    /\ res.nn.tag = "Ok"
    /\ Cardinality(FreedBy(pre.nn, nn)) = 1

C33_MinimalListIsStack ==
    /\ ml.op = "pop" =>
           ml.res = IF ml.was = <<>> THEN NoValue ELSE Some(ml.was[Len(ml.was)])
    /\ MlLen(ml) = ml.pushes - ml.pops
    /\ MlIsEmpty(ml) <=> MlLen(ml) = 0

C33_Witness ==
    /\ ml.op = "pop"
    /\ Len(ml.was) = MaxLen
    /\ ml.res = Some(ml.was[MaxLen])
    /\ ml.pops >= 2
    /\ MlLen(ml) = MaxLen - 1

\* C39: in each variant get, ix2val, val2ix, len, is_empty and display leave
\* the list as it was: the same len, head and tail, the same nodes with the
\* same next links and the same values, whether the argument is in range or
\* not.
C39_QueriesChangeNothing ==
    call.name \in {"get", "ix2val", "val2ix", "len", "is_empty", "display"} =>
        \A k \in on :
            /\ Cur(k).len = pre[k].len
            /\ Cur(k).head = pre[k].head
            /\ k \in Tracked => Cur(k).tail = pre[k].tail
            /\ Cur(k).nodes = pre[k].nodes

C39_Witness ==
    /\ on = {"bx"}
    /\ call.name = "ix2val"
    /\ call.at = 1
    /\ pre.bx.len = MaxLen
    /\ res.bx.tag = "Some"
    /\ bx = pre.bx
====
